---- MODULE Spec2Model ----
(***************************************************************************)
(* The file-set index of package files (Set: record table, per-peer        *)
(* indices, global index, availability index, change counters) together    *)
(* with the lamport clock it draws tombstone versions from.                *)
(*                                                                         *)
(* Go maps are functions; a lookup of an absent key yields the zero value  *)
(* (Lookup).  A bitset (uint64) is the set of its set bit positions: bit i *)
(* is set iff i is a member, 1 << i is {i}, | is \cup and 0 is {}.         *)
(***************************************************************************)
EXTENDS Integers, Sequences, FiniteSets, TLC

----------------------------------------------------------------------------
(* Program constants *)

\* remoteKey [64]map[string]key, changes [64]uint64
NumSlots == 64

\* Hash [md5.Size]byte
md5Size == 16

\* cid.LocalID
LocalID == 0

\* protocol.FlagDeleted
FlagDeleted == 4096

----------------------------------------------------------------------------
(* Bounds of the model *)

\* a call is taken only while the change counters sum to less than MaxChanges
MaxChanges == 3

\* the bits the model gives a uint64: the values are 0 .. 2^UintBits - 1
UintBits == 3

\* the calls of Clock made by its callers together
MaxClockCalls == 3

\* newPuller's slots: the request slots the puller is made with
NSlots == 2

\* the blocks the filler gets from the block queue
MaxBlocks == 3

Names == {"a", "b"}

\* the peers that are written: the local one and a remote one
PeerIds == {LocalID, 1}

Slots == 0..(NumSlots - 1)

----------------------------------------------------------------------------
(* scanner.File, scanner.Block, key, fileRecord *)

Block1 == [Offset |-> 0, Size |-> 1, Hash |-> <<1>>]

Block2 == [Offset |-> 1, Size |-> 1, Hash |-> <<2>>]

RECURSIVE SumSizes(_)
SumSizes(bs) == IF bs = <<>> THEN 0 ELSE Head(bs).Size + SumSizes(Tail(bs))

File(n, v, t, bs) ==
  [Name |-> n, Version |-> v, Modified |-> t, Flags |-> 0,
   Size |-> SumSizes(bs), Blocks |-> bs]

\* the zero value of scanner.File
ZeroFile ==
  [Name |-> "", Version |-> 0, Modified |-> 0, Flags |-> 0,
   Size |-> 0, Blocks |-> <<>>]

ZeroHash == [i \in 1..md5Size |-> 0]

\* the zero value of key
ZeroKey == [Name |-> "", Version |-> 0, Modified |-> 0, Hash |-> ZeroHash]

\* the <<Version, Modified>> pairs of the descriptors handed in: Version is
\* a uint64 from 0 upward, Modified a signed number of seconds
Stamps == { <<0, -1>>, <<0, 0>>, <<1, 0>> }

\* the descriptors callers hand in: live files of one block
Descriptors == { File(n, s[1], s[2], <<Block1>>) : n \in Names, s \in Stamps }

\* Flags & protocol.FlagDeleted != 0
IsDeleted(f) == (f.Flags \div FlagDeleted) % 2 = 1

\* m[k] of a Go map: the zero value when k is absent
Lookup(m, k, zero) == IF k \in DOMAIN m THEN m[k] ELSE zero

EmptyMap == <<>>

----------------------------------------------------------------------------
(* crypto/md5 *)

\* h.Write(b.Hash) for every block: the bytes the hasher h has been fed
RECURSIVE hashWrite(_)
hashWrite(bs) ==
  IF bs = <<>> THEN <<>> ELSE Head(bs).Hash \o hashWrite(Tail(bs))

\* md5.Sum(data): the MD5 digests of the byte strings of the model
md5Sum(data) ==
  CASE data = <<>> ->
         <<212, 29, 140, 217, 143, 0, 178, 4, 233, 128, 9, 152, 236, 248, 66, 126>>
    [] data = <<1>> ->
         <<85, 165, 64, 8, 173, 27, 165, 137, 170, 33, 13, 38, 41, 193, 223, 65>>
    [] data = <<2>> ->
         <<158, 104, 140, 88, 165, 72, 123, 142, 175, 105, 201, 225, 0, 90, 208, 191>>
    [] data = <<1, 2>> ->
         <<12, 185, 136, 208, 66, 167, 242, 141, 213, 254, 43, 85, 179, 245, 172, 122>>
    [] data = <<2, 1>> ->
         <<5, 13, 20, 65, 114, 217, 22, 208, 132, 111, 131, 158, 4, 18, 233, 41>>

\* keyFor: h is fed the block hashes, but Hash is md5.Sum(nil), the digest
\* of no data; h.Sum is never called
keyFor(f) ==
  LET h == hashWrite(f.Blocks)
  IN  [Name |-> f.Name, Version |-> f.Version, Modified |-> f.Modified,
       Hash |-> md5Sum(<<>>)]

\* the first index at which two digests differ, 0 when they are equal
FirstDiff(x, y) ==
  IF \E i \in 1..md5Size : x[i] # y[i]
  THEN CHOOSE i \in 1..md5Size :
         /\ x[i] # y[i]
         /\ \A j \in 1..(i - 1) : x[j] = y[j]
  ELSE 0

\* newerThan with the comparison of Modified left out
newerThanNoModified(a, b) ==
  IF a.Version # b.Version THEN a.Version > b.Version
  ELSE LET i == FirstDiff(a.Hash, b.Hash)
       IN  IF i # 0 THEN a.Hash[i] > b.Hash[i] ELSE FALSE

\* a.newerThan(b)
newerThan(a, b) ==
  IF a.Version # b.Version THEN a.Version > b.Version
  ELSE IF a.Modified # b.Modified THEN a.Modified > b.Modified
  ELSE LET i == FirstDiff(a.Hash, b.Hash)
       IN  IF i # 0 THEN a.Hash[i] > b.Hash[i] ELSE FALSE

----------------------------------------------------------------------------
(* type Set struct *)

VARIABLES
  files,               \* map[key]fileRecord
  remoteKey,           \* [64]map[string]key: the maps that are not nil, by slot
  changes,             \* [64]uint64: the counters that are not 0, by slot
  globalAvailability,  \* map[string]bitset
  globalKey,           \* map[string]key
  locked,              \* the embedded sync.Mutex is held
  clockVal,            \* lamport: var clockVal uint64
  panicked,            \* a call has panicked: the process is aborting
  call,                \* the call the caller has just made
  args,                \* the arguments of a function applied on its own
  result               \* what that function returned

\* lamport: var clockMut sync.Mutex, and type puller struct with its filler
\* and request goroutines
VARIABLES
  clockMut,            \* the caller holding clockMut, 0 when it is free
  openFiles,           \* map[string]openFile
  requestSlots,        \* chan bool: the number of slots in the channel
  oustandingPerNode,   \* activityMap
  queued,              \* the names put into bq that it has blocks left of
  filler,              \* the filler goroutine: where it blocks
  requests,            \* the request goroutines, oldest first
  handled              \* the number of blocks the filler got from bq

setVars == <<files, remoteKey, changes, globalAvailability, globalKey>>

pullerVars ==
  <<openFiles, requestSlots, oustandingPerNode, queued, filler, requests,
    handled>>

\* the Set as one value, with the clock it reads; panic marks a run-time panic
Cur ==
  [files |-> files, remoteKey |-> remoteKey, changes |-> changes, globalAvailability |-> globalAvailability,
   globalKey |-> globalKey, locked |-> locked, clockVal |-> clockVal,
   panic |-> panicked]

\* NewSet: files, globalAvailability and globalKey are made; the 64 maps of
\* remoteKey are left nil and the 64 counters of changes are 0
NewSet ==
  [files |-> EmptyMap,
   remoteKey |-> EmptyMap,
   changes |-> EmptyMap,
   globalAvailability |-> EmptyMap,
   globalKey |-> EmptyMap,
   locked |-> FALSE, clockVal |-> 0, panic |-> FALSE]

\* m[k] = v of a Go map
Store(m, k, v) == [x \in DOMAIN m \cup {k} |-> IF x = k THEN v ELSE m[x]]

\* delete(m, k) of a Go map
Delete(m, k) == [x \in DOMAIN m \ {k} |-> m[x]]

\* m.remoteKey[i], i in 0..63: a nil map reads as an empty one
remoteMap(st, i) == Lookup(st.remoteKey, i, EmptyMap)

\* m.remoteKey[i] is a nil map
isNilMap(st, i) == i \notin DOMAIN st.remoteKey

\* m.changes[i], i in 0..63
changesOf(st, i) == Lookup(st.changes, i, 0)

\* m.changes[id]++
incChanges(st, id) == [st EXCEPT !.changes = Store(@, id, changesOf(st, id) + 1)]

\* 1 << cid as a bitset
Bit(i) == {i}

----------------------------------------------------------------------------
(* lamport.Clock *)

\* x as a uint64, which the model gives UintBits bits: c + 1 and clockVal++
\* wrap around to 0
Uint(x) == x % (2 ^ UintBits)

\* the value Clock(c) returns when clockVal is cv
ClockResult(cv, c) == IF c > cv THEN Uint(c + 1) ELSE Uint(cv + 1)

\* clockVal after Clock(c)
ClockNext(cv, c) == IF c > cv THEN Uint(c + 1) ELSE Uint(cv + 1)

----------------------------------------------------------------------------
(* Set.equals *)

RECURSIVE equalsLoop(_, _)
equalsLoop(s, fs) ==
  IF fs = <<>> THEN TRUE
  ELSE IF Lookup(s, Head(fs).Name, ZeroKey) # keyFor(Head(fs)) THEN FALSE
  ELSE equalsLoop(s, Tail(fs))

\* equals with the comparison of the keys left out: only the lengths decide
equalsByLength(st, id, fs) ==
  Cardinality(DOMAIN remoteMap(st, id)) = Len(fs)

equals(st, id, fs) ==
  LET s == remoteMap(st, id)
  IN  IF Cardinality(DOMAIN s) # Len(fs) THEN FALSE ELSE equalsLoop(s, fs)

----------------------------------------------------------------------------
(* Set.update *)

\* lines 212-221: keep the block list or increment the usage
updateRecord(fls, fk, f) ==
  IF fk \notin DOMAIN fls
  THEN Store(fls, fk, [Usage |-> 1, File |-> f])
  ELSE Store(fls, fk, [fls[fk] EXCEPT !.Usage = @ + 1])

\* updateGlobal with the newerThan test left out: the last writer wins
updateGlobalLastWins(gks, gas, cid, n, fk) ==
  IF n \in DOMAIN gks /\ fk = gks[n]
  THEN <<gks, Store(gas, n, Lookup(gas, n, {}) \cup Bit(cid))>>
  ELSE <<Store(gks, n, fk), Store(gas, n, Bit(cid))>>

\* lines 223-233: update global view; the pair <<globalKey, globalAvailability>>
updateGlobal(gks, gas, cid, n, fk) ==
  LET ok == n \in DOMAIN gks
      gk == Lookup(gks, n, ZeroKey)
  IN  IF ok /\ fk = gk
      THEN <<gks, Store(gas, n, Lookup(gas, n, {}) \cup Bit(cid))>>
      ELSE IF newerThan(fk, gk)
      THEN <<Store(gks, n, fk), Store(gas, n, Bit(cid))>>
      ELSE <<gks, gas>>

\* one descriptor that is not skipped: the write remFiles[n] = fk panics when
\* remFiles is a nil map
updateOne(st, cid, f) ==
  LET n == f.Name
      fk == keyFor(f)
      g == updateGlobal(st.globalKey, st.globalAvailability, cid, n, fk)
  IN  IF isNilMap(st, cid)
      THEN [st EXCEPT !.panic = TRUE]
      ELSE [st EXCEPT !.remoteKey[cid] = Store(@, n, fk),
                      !.files = updateRecord(@, fk, f),
                      !.globalKey = g[1],
                      !.globalAvailability = g[2]]

\* line 205: the remote already has exactly this file
alreadyHas(st, cid, f) ==
  /\ f.Name \in DOMAIN remoteMap(st, cid)
  /\ remoteMap(st, cid)[f.Name] = keyFor(f)

RECURSIVE updateLoop(_, _, _)
updateLoop(st, cid, fs) ==
  IF fs = <<>> \/ st.panic THEN st
  ELSE IF alreadyHas(st, cid, Head(fs)) THEN updateLoop(st, cid, Tail(fs))
  ELSE updateLoop(updateOne(st, cid, Head(fs)), cid, Tail(fs))

\* m.remoteKey[cid] is an index into a [64] array: out of range panics
update(st, cid, fs) ==
  IF cid >= NumSlots THEN [st EXCEPT !.panic = TRUE]
  ELSE updateLoop(st, cid, fs)

----------------------------------------------------------------------------
(* Set.replace *)

\* the keys a map binds
Range(m) == { m[x] : x \in DOMAIN m }

\* releaseRecords that removes the record of every key the remote holds,
\* whatever its usage
releaseRecordsEager(fls, held) ==
  [k \in { x \in DOMAIN fls : x \notin held } |-> fls[k]]

\* lines 238-249: decrement usage for all files belonging to this remote,
\* and remove those that are no longer needed
releaseRecords(fls, held) ==
  [k \in { x \in DOMAIN fls : ~(x \in held /\ fls[x].Usage = 1) } |->
     IF k \in held /\ fls[k].Usage > 1
     THEN [fls[k] EXCEPT !.Usage = @ - 1]
     ELSE fls[k]]

\* the slots whose map binds name n: those the scan does anything for
holders(rks, n) == { i \in DOMAIN rks : n \in DOMAIN rks[i] }

\* lines 256-269: the scan of remoteKey[i] in the order i = 0..63, for name n,
\* over the slots hs still to visit; the pair <<nk, na>> (newest key, newest
\* availability)
RECURSIVE newest(_, _, _, _, _)
newest(rks, n, hs, nk, na) ==
  IF hs = {} THEN <<nk, na>>
  ELSE LET i == CHOOSE x \in hs : \A y \in hs : x <= y
           rk == rks[i][n]
       IN  IF rk = nk THEN newest(rks, n, hs \ {i}, nk, na \cup Bit(i))
           ELSE IF newerThan(rk, nk) THEN newest(rks, n, hs \ {i}, rk, Bit(i))
           ELSE newest(rks, n, hs \ {i}, nk, na)

\* lines 254-280: recalculate global based on all remaining remoteKey
recalcGlobal(st) ==
  LET res == [n \in DOMAIN st.globalKey |->
                newest(st.remoteKey, n, holders(st.remoteKey, n), ZeroKey, {})]
      kept == { n \in DOMAIN st.globalKey : res[n][2] # {} }
  IN  [st EXCEPT !.globalKey = [n \in kept |-> res[n][1]],
                 !.globalAvailability =
                    [n \in (DOMAIN @ \ DOMAIN st.globalKey) \cup kept |->
                       IF n \in kept THEN res[n][2] ELSE @[n]]]

\* replace with the clearing of the remote's map left out once the map
\* exists: the new files are merged into the old ones
replaceMerging(st, cid, fs) ==
  LET st1 == [st EXCEPT !.files = releaseRecords(@, Range(remoteMap(st, cid)))]
      st2 == IF isNilMap(st1, cid)
             THEN [st1 EXCEPT !.remoteKey = Store(@, cid, EmptyMap)]
             ELSE st1
  IN  update(recalcGlobal(st2), cid, fs)

replace(st, cid, fs) ==
  LET st1 == [st EXCEPT !.files = releaseRecords(@, Range(remoteMap(st, cid)))]
      st2 == [st1 EXCEPT !.remoteKey = Store(@, cid, EmptyMap)]
  IN  update(recalcGlobal(st2), cid, fs)

----------------------------------------------------------------------------
(* The public mutations.  Each takes the Set before the call and yields the *)
(* Set when the call returns or panics.                                     *)

\* m.Unlock() is reached only when nothing panicked in between
unlock(st) == IF st.panic THEN st ELSE [st EXCEPT !.locked = FALSE]

\* Replace with the check of the id left out
ReplaceUnchecked(st, id, fs) ==
  LET l == [st EXCEPT !.locked = TRUE]
  IN  IF ~equals(l, id, fs)
      THEN unlock(replace(incChanges(l, id), id, fs))
      ELSE unlock(l)

Replace(st, id, fs) ==
  IF id > NumSlots - 1 THEN [st EXCEPT !.panic = TRUE]
  ELSE LET l == [st EXCEPT !.locked = TRUE]
       IN  IF ~equals(l, id, fs)
           THEN unlock(replace(incChanges(l, id), id, fs))
           ELSE unlock(l)

\* Update has no range check of its own
Update(st, id, fs) ==
  LET l == [st EXCEPT !.locked = TRUE]
      u == update(l, id, fs)
  IN  IF u.panic THEN u
      ELSE unlock(incChanges(u, id))

\* cf of lines 106-110: the current file, marked deleted
tombstone(f, v) ==
  [f EXCEPT !.Flags = FlagDeleted, !.Blocks = <<>>, !.Size = 0, !.Version = v]

\* lines 104-116: order is the order in which range yields the keys of
\* remoteKey[LocalID]; the pair <<fs, clockVal>>
RECURSIVE addDeleted(_, _, _, _, _)
addDeleted(fls, nf, order, fs, cv) ==
  IF order = <<>> THEN <<fs, cv>>
  ELSE LET ck == Head(order)
       IN  IF ck.Name \notin nf
           THEN LET cf == Lookup(fls, ck, [Usage |-> 0, File |-> ZeroFile]).File
                IN  addDeleted(fls, nf, Tail(order),
                               Append(fs, tombstone(cf, ClockResult(cv, cf.Version))),
                               ClockNext(cv, cf.Version))
           ELSE addDeleted(fls, nf, Tail(order), fs, cv)

\* ReplaceWithDelete with the adding of the deleted files left out
ReplaceWithDeleteForgetting(st, id, fs, order) ==
  IF id > NumSlots - 1 THEN [st EXCEPT !.panic = TRUE]
  ELSE LET l == [st EXCEPT !.locked = TRUE]
       IN  IF ~equals(l, id, fs)
           THEN unlock(replace(incChanges(l, id), id, fs))
           ELSE unlock(l)

ReplaceWithDelete(st, id, fs, order) ==
  IF id > NumSlots - 1 THEN [st EXCEPT !.panic = TRUE]
  ELSE LET l == [st EXCEPT !.locked = TRUE]
       IN  IF ~equals(l, id, fs)
           THEN LET nf == { fs[i].Name : i \in 1..Len(fs) }
                    d == addDeleted(l.files, nf, order, fs, l.clockVal)
                IN  unlock(replace([incChanges(l, id) EXCEPT !.clockVal = d[2]],
                                   id, d[1]))
           ELSE unlock(l)

\* the orders in which range may yield the elements of S
Orders(S) ==
  { s \in [1..Cardinality(S) -> S] :
      \A i, j \in 1..Cardinality(S) : i # j => s[i] # s[j] }

----------------------------------------------------------------------------
(* The queries *)

\* m.files[k].File: the zero File when k has no record
fileOf(st, k) == Lookup(st.files, k, [Usage |-> 0, File |-> ZeroFile]).File

\* Set.Get
Get(st, cid, file) == fileOf(st, Lookup(remoteMap(st, cid), file, ZeroKey))

----------------------------------------------------------------------------
(* The state machine: a caller makes one call at a time.  An action is the *)
(* whole of a public method, from its first statement to its return or its *)
(* panic; call holds the method and the arguments of the call just made    *)
(* until the caller drops them (Return).                                   *)

NameOrder == <<"a", "b">>

\* the file lists callers hand in: Name is unique within a list.  update
\* touches only entries of the descriptor's own name, so the order of a list
\* of distinct names does not matter and one order per list is handed in
FileLists ==
  { fs \in UNION { [1..n -> Descriptors] : n \in 0..Cardinality(Names) } :
      \A i, j \in 1..Len(fs) :
        i < j => \E x, y \in 1..Len(NameOrder) :
                   x < y /\ fs[i].Name = NameOrder[x] /\ fs[j].Name = NameOrder[y] }

\* the calls made: every list for the peers of the model, and the lists of
\* at most one descriptor for an id out of range
CallArgs ==
  (PeerIds \X FileLists)
    \cup ({NumSlots} \X { fs \in FileLists : Len(fs) <= 1 })

NoCall == [op |-> "none", id |-> 0, fs |-> <<>>]

vars == <<files, remoteKey, changes, globalAvailability, globalKey,
          locked, clockVal, panicked, call, args, result, clockMut,
          openFiles, requestSlots, oustandingPerNode, queued, filler,
          requests, handled>>

Become(st) ==
  /\ files' = st.files
  /\ remoteKey' = st.remoteKey
  /\ changes' = st.changes
  /\ globalAvailability' = st.globalAvailability
  /\ globalKey' = st.globalKey
  /\ locked' = st.locked
  /\ clockVal' = st.clockVal
  /\ panicked' = st.panic
  /\ UNCHANGED <<args, result, clockMut, pullerVars>>

\* no block, the zero value of bqBlock
NoBlock == [file |-> ZeroFile, copy |-> FALSE, size |-> FALSE, last |-> FALSE]

\* the filler blocked at pc, holding no block
FillerAt(pc) == [pc |-> pc, b |-> NoBlock]

\* no puller has been made
NoPuller ==
  /\ openFiles = EmptyMap
  /\ requestSlots = 0
  /\ oustandingPerNode = EmptyMap
  /\ queued = {}
  /\ filler = FillerAt("slot")
  /\ requests = <<>>
  /\ handled = 0

\* the Set just constructed, no call made, the clock not yet used
Fresh ==
  /\ files = NewSet.files
  /\ remoteKey = NewSet.remoteKey
  /\ changes = NewSet.changes
  /\ globalAvailability = NewSet.globalAvailability
  /\ globalKey = NewSet.globalKey
  /\ locked = NewSet.locked
  /\ clockVal = NewSet.clockVal
  /\ panicked = NewSet.panic
  /\ call = NoCall
  /\ clockMut = 0
  /\ NoPuller

Init ==
  /\ Fresh
  /\ args = <<>>
  /\ result = <<>>

\* the sum of the change counters
RECURSIVE Sum(_)
Sum(f) ==
  IF DOMAIN f = {} THEN 0
  ELSE LET x == CHOOSE y \in DOMAIN f : TRUE IN f[x] + Sum(Delete(f, x))

\* a call starts once the caller is back from the last one, in a process
\* that has not aborted, when m.Lock() can be taken; MaxChanges caps the
\* change counters
CanCall ==
  /\ call = NoCall
  /\ ~panicked
  /\ ~locked
  /\ Sum(changes) < MaxChanges

ReplaceCall ==
  /\ CanCall
  /\ \E a \in CallArgs :
       /\ Become(Replace(Cur, a[1], a[2]))
       /\ call' = [op |-> "Replace", id |-> a[1], fs |-> a[2]]

\* ReplaceWithDelete is the local scan's entry: it is called for LocalID (the
\* list of deletions is LocalID's whatever the id) or, wrongly, out of range
ReplaceWithDeleteCall ==
  /\ CanCall
  /\ \E a \in { x \in CallArgs : x[1] # 1 } :
       \E order \in Orders(Range(remoteMap(Cur, LocalID))) :
         /\ Become(ReplaceWithDelete(Cur, a[1], a[2], order))
         /\ call' = [op |-> "ReplaceWithDelete", id |-> a[1], fs |-> a[2]]

UpdateCall ==
  /\ CanCall
  /\ \E a \in CallArgs :
       /\ Become(Update(Cur, a[1], a[2]))
       /\ call' = [op |-> "Update", id |-> a[1], fs |-> a[2]]

\* the call has returned to the caller, who drops its arguments and result
Return ==
  /\ call # NoCall
  /\ ~panicked
  /\ call' = NoCall
  /\ args' = <<>>
  /\ result' = <<>>
  /\ UNCHANGED <<files, remoteKey, changes, globalAvailability,
                 globalKey, locked, clockVal, panicked, clockMut, pullerVars>>

Next == ReplaceCall \/ ReplaceWithDeleteCall \/ UpdateCall \/ Return

Spec == Init /\ [][Next]_vars

----------------------------------------------------------------------------
(* keyFor on its own: two descriptors are drawn and keyFor is applied to   *)
(* each                                                                    *)

KeyBlockLists ==
  { <<>>, <<Block1>>, <<Block2>>, <<Block1, Block2>>, <<Block2, Block1>> }

KeyInputs ==
  { File(n, s[1], s[2], bs) : n \in Names, s \in Stamps, bs \in KeyBlockLists }

InitKey ==
  /\ Fresh
  /\ args \in KeyInputs \X KeyInputs
  /\ result = <<>>

KeyForCall ==
  /\ result = <<>>
  /\ Len(args) = 2
  /\ result' = <<keyFor(args[1]), keyFor(args[2])>>
  /\ UNCHANGED <<files, remoteKey, changes, globalAvailability, globalKey,
                 locked, clockVal, panicked, call, args, clockMut, pullerVars>>

NextKey == KeyForCall

SpecKey == InitKey /\ [][NextKey]_vars

----------------------------------------------------------------------------
(* Vocabulary of the properties *)

\* peer i holds a key for name n
Holds(i, n) == i \in DOMAIN remoteKey /\ n \in DOMAIN remoteKey[i]

\* the key peer i holds for name n
KeyOf(i, n) == remoteKey[i][n]

\* the names some peer holds
HeldNames == UNION { DOMAIN remoteKey[i] : i \in DOMAIN remoteKey }

\* the (peer, name) pairs whose per-peer index entry is k
Referers(k) ==
  { p \in Slots \X HeldNames : Holds(p[1], p[2]) /\ KeyOf(p[1], p[2]) = k }

\* the names of a file list
NamesOf(fs) == { fs[i].Name : i \in 1..Len(fs) }

\* the view a list of distinct names encodes: name -> key
ViewOf(fs) ==
  [n \in NamesOf(fs) |->
     keyFor(fs[CHOOSE i \in 1..Len(fs) : fs[i].Name = n])]

\* a call of method op has been made and has returned
Returned(op) == call.op = op /\ ~panicked

\* the step is a call of method op that returns
Returns(op) == call.op = "none" /\ call'.op = op /\ ~panicked'

----------------------------------------------------------------------------
(* C1..C5: the invariants of the four indices *)

\* C1: usage accuracy. After any sequence of calls that returned, the Usage
\* of every record equals the number of (peer, name) pairs whose per-peer
\* index entry is the record's key.
C1_UsageAccuracy ==
  ~panicked =>
    \A k \in DOMAIN files : files[k].Usage = Cardinality(Referers(k))

\* C2: availability exactness. For every name n of the global index and
\* every peer i of 0..63, bit i of the mask of n is set iff peer i holds for
\* n a key equal to the global key of n; and the mask is not zero.
C2_AvailabilityExact ==
  ~panicked =>
    \A n \in DOMAIN globalKey :
      /\ \A i \in Slots :
           i \in Lookup(globalAvailability, n, {})
             <=> (Holds(i, n) /\ KeyOf(i, n) = globalKey[n])
      /\ Lookup(globalAvailability, n, {}) # {}

\* C3: the global key is the maximum of the held keys. For every name n of
\* the global index, some peer holds the global key of n for n, and no peer
\* holds for n a key newer than it.
C3_GlobalIsMaxHeld ==
  ~panicked =>
    \A n \in DOMAIN globalKey :
      /\ \E i \in Slots : Holds(i, n) /\ KeyOf(i, n) = globalKey[n]
      /\ \A i \in Slots : Holds(i, n) => ~newerThan(KeyOf(i, n), globalKey[n])

\* C4: global maximality, weak form. For every peer i and every name n that
\* peer i holds, the global key of n (m.globalKey[n], the zero key when the
\* index has no entry) is equal to or newer than the key peer i holds for n.
C4_GlobalNotOlder ==
  ~panicked =>
    \A i \in Slots : \A n \in HeldNames :
      Holds(i, n) =>
        LET gk == Lookup(globalKey, n, ZeroKey)
        IN  gk = KeyOf(i, n) \/ newerThan(gk, KeyOf(i, n))

\* an Update has returned that left a peer with a key older than the global
\* key of the name, which another peer holds
C4_Witness ==
  /\ Returned("Update")
  /\ \E i, j \in Slots : \E n \in DOMAIN globalKey :
       /\ Holds(i, n) /\ Holds(j, n)
       /\ KeyOf(j, n) = globalKey[n]
       /\ newerThan(globalKey[n], KeyOf(i, n))

\* C5: global presence. A name is a key of the global index, and of the
\* availability index, iff at least one of the 64 per-peer indices contains
\* it; for every descriptor of the data model, Version 0 and negative
\* Modified included.
C5_GlobalPresence ==
  ~panicked =>
    \A n \in HeldNames \cup DOMAIN globalKey \cup DOMAIN globalAvailability :
      /\ n \in DOMAIN globalKey <=> \E i \in Slots : Holds(i, n)
      /\ n \in DOMAIN globalAvailability <=> \E i \in Slots : Holds(i, n)

----------------------------------------------------------------------------
(* C6..C9: Replace, Update and ReplaceWithDelete as steps *)

\* the record table and the per-peer, global and availability indices
Indices(st) ==
  <<st.files, [i \in Slots |-> remoteMap(st, i)], st.globalKey,
    st.globalAvailability>>

\* the Set after the step
Post ==
  [files |-> files', remoteKey |-> remoteKey', changes |-> changes',
   globalAvailability |-> globalAvailability', globalKey |-> globalKey',
   locked |-> locked', clockVal |-> clockVal', panic |-> panicked']

\* files encodes exactly the view peer p has in st: same names, each with an
\* equal key
SameView(st, p, fs) == remoteMap(st, p) = ViewOf(fs)

\* a second Replace with the arguments of the call just made leaves the Set
\* as it is
SecondReplaceIdle == Replace(Cur, call.id, call.fs) = Cur

\* C6: Replace no-op and idempotence. When files encodes exactly peer p's
\* view, Replace(p, files) changes none of the record table and the
\* per-peer, global and availability indices and does not increment
\* Changes(p); otherwise Changes(p) is incremented exactly once. So a
\* Replace(p, S) right after Replace(p, S) leaves the whole state identical.
C6_ReplaceNoOp ==
  [][ Returns("Replace") =>
        /\ IF SameView(Cur, call'.id, call'.fs)
           THEN UNCHANGED setVars
           ELSE changesOf(Post, call'.id) = changesOf(Cur, call'.id) + 1
        /\ SecondReplaceIdle' ]_vars

\* a Replace with a list of two files has returned, and the list encodes the
\* peer's view: the case in which a second Replace is the no-op
C6_Witness ==
  /\ Returned("Replace")
  /\ Len(call.fs) = 2
  /\ SameView(Cur, call.id, call.fs)
  /\ SecondReplaceIdle

\* C7: Replace substitutes the whole view. After Replace(p, files) returns,
\* peer p's index holds exactly the names of files, each bound to the key of
\* its descriptor (so a name p held that is not in files is gone), and the
\* per-peer indices of all other peers are as before.
C7_ReplaceSubstitutes ==
  [][ Returns("Replace") =>
        /\ SameView(Post, call'.id, call'.fs)
        /\ \A q \in Slots \ {call'.id} :
             remoteMap(Post, q) = remoteMap(Cur, q) ]_vars

\* a Replace has returned that dropped a name the peer held and kept another,
\* while the other peer holds files
C7_Witness ==
  /\ Returned("Replace")
  /\ Len(call.fs) = 1
  /\ DOMAIN remoteMap(Cur, call.id) = NamesOf(call.fs)
  /\ changesOf(Cur, call.id) = 2
  /\ \E q \in Slots \ {call.id} : DOMAIN remoteMap(Cur, q) = Names

\* C8: Replace is equivalent to Update after empty. From any FileSet in which
\* peer p holds no files (a fresh FileSet is one), Update(p, S) completes and
\* yields the record table and indices that Replace(p, S) yields from there.
C8_UpdateAsReplace ==
  [][ ( /\ call.op = "none"
        /\ call'.op = "Update"
        /\ call'.id \in Slots
        /\ DOMAIN remoteMap(Cur, call'.id) = {} )
      => /\ ~panicked'
         /\ Indices(Post) = Indices(Replace(Cur, call'.id, call'.fs)) ]_vars

\* C9: ReplaceWithDelete synthesizes tombstones. For every name n LocalID
\* holds before ReplaceWithDelete(LocalID, files) that is absent from files,
\* LocalID holds after the call a descriptor for n with the Deleted flag, no
\* blocks, Size 0 and a Version greater than the one held before, under a
\* key newer than the key held before.
C9_Tombstones ==
  [][ ( Returns("ReplaceWithDelete") /\ call'.id = LocalID )
      => \A n \in DOMAIN remoteMap(Cur, LocalID) \ NamesOf(call'.fs) :
           /\ IsDeleted(Get(Post, LocalID, n))
           /\ Get(Post, LocalID, n).Blocks = <<>>
           /\ Get(Post, LocalID, n).Size = 0
           /\ Get(Post, LocalID, n).Version > remoteMap(Cur, LocalID)[n].Version
           /\ n \in DOMAIN remoteMap(Post, LocalID)
           /\ newerThan(remoteMap(Post, LocalID)[n], remoteMap(Cur, LocalID)[n])
    ]_vars

----------------------------------------------------------------------------
(* C10: keyFor *)

\* the digest over the block hashes of f, in order
Digest(f) == md5Sum(hashWrite(f.Blocks))

\* C10: record key identity. Two descriptors get equal keys iff their Name,
\* Version, Modified and the digest over their block hashes all agree.
C10_KeyIdentity ==
  result # <<>> =>
    ( result[1] = result[2]
        <=> /\ args[1].Name = args[2].Name
            /\ args[1].Version = args[2].Version
            /\ args[1].Modified = args[2].Modified
            /\ Digest(args[1]) = Digest(args[2]) )

----------------------------------------------------------------------------
(* C11: newerThan on its own: three keys of one name are drawn and         *)
(* newerThan is applied to every pair of them                              *)

\* a digest that differs from that of no data in its last byte only
LastByteHash == [md5Sum(<<>>) EXCEPT ![md5Size] = @ + 1]

OrderHashes == { ZeroHash, md5Sum(<<>>), md5Sum(<<1>>), LastByteHash }

\* keys of the name "a"; a key is any value of the struct, not only one
\* keyFor makes
OrderKeys ==
  { [Name |-> "a", Version |-> s[1], Modified |-> s[2], Hash |-> h] :
      s \in Stamps, h \in OrderHashes }

InitOrder ==
  /\ Fresh
  /\ args \in OrderKeys \X OrderKeys \X OrderKeys
  /\ result = <<>>

\* result[i][j] is args[i].newerThan(args[j])
NewerThanCall ==
  /\ result = <<>>
  /\ Len(args) = 3
  /\ result' = [i \in 1..3 |-> [j \in 1..3 |-> newerThan(args[i], args[j])]]
  /\ UNCHANGED <<files, remoteKey, changes, globalAvailability, globalKey,
                 locked, clockVal, panicked, call, args, clockMut, pullerVars>>

NextOrder == NewerThanCall

SpecOrder == InitOrder /\ [][NextOrder]_vars

\* a is ahead of b in the order the claim describes: by Version, then by
\* Modified, then by the first byte at which the digests differ
Ahead(a, b) ==
  \/ a.Version > b.Version
  \/ a.Version = b.Version /\ a.Modified > b.Modified
  \/ /\ a.Version = b.Version
     /\ a.Modified = b.Modified
     /\ \E i \in 1..md5Size :
          /\ a.Hash[i] > b.Hash[i]
          /\ \A j \in 1..(i - 1) : a.Hash[j] = b.Hash[j]

\* C11: newerThan is a strict total order on the keys of one name. It is
\* irreflexive (equal keys are not newer than each other), asymmetric and
\* transitive; of two distinct keys exactly one is newer than the other; and
\* it is decided by Version, then Modified, then byte-wise digest comparison.
C11_StrictTotalOrder ==
  result # <<>> =>
    /\ \A i, j \in 1..3 :
         /\ args[i] = args[j] => ~result[i][j]
         /\ result[i][j] => ~result[j][i]
         /\ args[i] # args[j] => (result[i][j] \/ result[j][i])
         /\ result[i][j] <=> Ahead(args[i], args[j])
    /\ \A i, j, k \in 1..3 :
         (result[i][j] /\ result[j][k]) => result[i][k]

\* three keys that agree in Version and Modified have been compared: the
\* digests alone order them, the first above the second above the third
C11_Witness ==
  /\ result # <<>>
  /\ Len(args) = 3
  /\ args[1].Version = args[2].Version /\ args[2].Version = args[3].Version
  /\ args[1].Modified = args[2].Modified /\ args[2].Modified = args[3].Modified
  /\ result[1][2] /\ result[2][3] /\ result[1][3]

----------------------------------------------------------------------------
(* C12: populating a new Set: every peer of the model is given a file list *)
(* and a method, Replace or Update, and the calls are made from NewSet in  *)
(* every order                                                             *)

PopulateOps == {"Replace", "Update"}

\* one call per peer: the peer's method and file list
PopulateCalls(p) ==
  { [op |-> o, id |-> p, fs |-> fs] : o \in PopulateOps, fs \in FileLists }

\* the call c made on st
applyCall(st, c) ==
  IF c.op = "Replace" THEN Replace(st, c.id, c.fs) ELSE Update(st, c.id, c.fs)

\* the calls of cs made one after the other; a panic aborts the process and
\* the calls after it are not made
RECURSIVE populate(_, _)
populate(st, cs) ==
  IF cs = <<>> \/ st.panic THEN st
  ELSE populate(applyCall(st, Head(cs)), Tail(cs))

InitPopulate ==
  /\ Fresh
  /\ args \in PopulateCalls(LocalID) \X PopulateCalls(1)
  /\ result = <<>>

\* result[1] maps every order of the calls to the Set it ends in
PopulateCall ==
  /\ result = <<>>
  /\ Len(args) = 2
  /\ result' = << [o \in Orders({args[1], args[2]}) |-> populate(NewSet, o)] >>
  /\ UNCHANGED <<files, remoteKey, changes, globalAvailability, globalKey,
                 locked, clockVal, panicked, call, args, clockMut, pullerVars>>

NextPopulate == PopulateCall

SpecPopulate == InitPopulate /\ [][NextPopulate]_vars

\* C12: global symmetry. For any assignment of file lists to peers,
\* populating the peers (one Replace or Update per peer on a new Set) in any
\* order of the peers completes and produces identical global and
\* availability indices.
C12_GlobalSymmetry ==
  result # <<>> =>
    \A o1, o2 \in DOMAIN result[1] :
      /\ ~result[1][o1].panic
      /\ result[1][o1].globalKey = result[1][o2].globalKey
      /\ result[1][o1].globalAvailability = result[1][o2].globalAvailability

----------------------------------------------------------------------------
(* The queries Need, Have, Global, Get, GetGlobal, Availability, Changes.  *)
(* Each yields the Set when the call returns or panics (st) and the value  *)
(* returned (ret).  order is the order in which range yields the map's     *)
(* names.                                                                  *)

\* m.Lock() ... m.Unlock() with nothing in between that changes the Set
lockUnlock(st) == unlock([st EXCEPT !.locked = TRUE])

\* a panic before m.Unlock() in a method that does not defer it
panicLocked(st) == [st EXCEPT !.locked = TRUE, !.panic = TRUE]

\* a panic in a method that defers m.Unlock(): the deferred call runs
panicDeferred(st) == [st EXCEPT !.locked = FALSE, !.panic = TRUE]

\* needLoop that passes over the names the peer holds no key for
RECURSIVE needLoopHeldOnly(_, _, _)
needLoopHeldOnly(st, cid, order) ==
  IF order = <<>> THEN <<>>
  ELSE LET name == Head(order)
           gk == st.globalKey[name]
       IN  IF /\ name \in DOMAIN remoteMap(st, cid)
              /\ newerThan(gk, remoteMap(st, cid)[name])
           THEN <<fileOf(st, gk)>> \o needLoopHeldOnly(st, cid, Tail(order))
           ELSE needLoopHeldOnly(st, cid, Tail(order))

\* lines 133-137, cid in 0..63
RECURSIVE needLoop(_, _, _)
needLoop(st, cid, order) ==
  IF order = <<>> THEN <<>>
  ELSE LET name == Head(order)
           gk == st.globalKey[name]
       IN  IF newerThan(gk, Lookup(remoteMap(st, cid), name, ZeroKey))
           THEN <<fileOf(st, gk)>> \o needLoop(st, cid, Tail(order))
           ELSE needLoop(st, cid, Tail(order))

\* Set.Need: m.remoteKey[cid] is evaluated in the loop body, so an id out of
\* range panics when the global index has an entry
Need(st, cid, order) ==
  IF cid >= NumSlots /\ order # <<>>
  THEN [st |-> panicLocked(st), ret |-> <<>>]
  ELSE [st |-> lockUnlock(st), ret |-> needLoop(st, cid, order)]

\* lines 145-147 and 155-157: the files of the keys m binds, in the order
\* range yields the names
RECURSIVE filesOf(_, _, _)
filesOf(st, m, order) ==
  IF order = <<>> THEN <<>>
  ELSE <<fileOf(st, m[Head(order)])>> \o filesOf(st, m, Tail(order))

\* Set.Have: m.remoteKey[cid] is the range expression
Have(st, cid, order) ==
  IF cid >= NumSlots
  THEN [st |-> panicLocked(st), ret |-> <<>>]
  ELSE [st |-> lockUnlock(st), ret |-> filesOf(st, remoteMap(st, cid), order)]

\* Set.Global
Global(st, order) ==
  [st |-> lockUnlock(st), ret |-> filesOf(st, st.globalKey, order)]

\* Set.Get as a call: defer m.Unlock()
GetOp(st, cid, file) ==
  IF cid >= NumSlots
  THEN [st |-> panicDeferred(st), ret |-> ZeroFile]
  ELSE [st |-> lockUnlock(st), ret |-> Get(st, cid, file)]

\* Set.GetGlobal
GetGlobal(st, file) ==
  [st |-> lockUnlock(st), ret |-> fileOf(st, Lookup(st.globalKey, file, ZeroKey))]

\* Set.Availability
Availability(st, name) ==
  [st |-> lockUnlock(st), ret |-> Lookup(st.globalAvailability, name, {})]

\* Set.Changes: defer m.Unlock()
Changes(st, id) ==
  IF id >= NumSlots
  THEN [st |-> panicDeferred(st), ret |-> 0]
  ELSE [st |-> lockUnlock(st), ret |-> changesOf(st, id)]

----------------------------------------------------------------------------
(* The state machine with the queries: the caller makes mutations and      *)
(* queries, one call at a time.  A query leaves its arguments beside the   *)
(* id in args and the value returned in result.                            *)

\* the ids queried: the peers of the model and one out of range
QueryIds == PeerIds \cup {NumSlots}

\* a query starts when the caller is back from the last call and m.Lock()
\* can be taken; like the mutations, it is made while the change counters
\* sum to less than MaxChanges
CanQuery ==
  /\ call = NoCall
  /\ ~panicked
  /\ ~locked
  /\ Sum(changes) < MaxChanges

\* the query op(id, a) ends with r: the Set r.st and the value r.ret
Answer(r, op, id, a) ==
  /\ files' = r.st.files
  /\ remoteKey' = r.st.remoteKey
  /\ changes' = r.st.changes
  /\ globalAvailability' = r.st.globalAvailability
  /\ globalKey' = r.st.globalKey
  /\ locked' = r.st.locked
  /\ clockVal' = r.st.clockVal
  /\ panicked' = r.st.panic
  /\ call' = [op |-> op, id |-> id, fs |-> <<>>]
  /\ args' = a
  /\ result' = <<r.ret>>
  /\ UNCHANGED <<clockMut, pullerVars>>

NeedCall ==
  /\ CanQuery
  /\ \E p \in QueryIds : \E order \in Orders(DOMAIN globalKey) :
       Answer(Need(Cur, p, order), "Need", p, <<>>)

HaveCall ==
  /\ CanQuery
  /\ \E p \in QueryIds :
       \E order \in Orders(DOMAIN remoteMap(Cur, IF p \in Slots THEN p ELSE LocalID)) :
         Answer(Have(Cur, p, order), "Have", p, <<>>)

GlobalCall ==
  /\ CanQuery
  /\ \E order \in Orders(DOMAIN globalKey) :
       Answer(Global(Cur, order), "Global", LocalID, <<>>)

GetCall ==
  /\ CanQuery
  /\ \E p \in QueryIds : \E n \in Names :
       Answer(GetOp(Cur, p, n), "Get", p, <<n>>)

GetGlobalCall ==
  /\ CanQuery
  /\ \E n \in Names :
       Answer(GetGlobal(Cur, n), "GetGlobal", LocalID, <<n>>)

AvailabilityCall ==
  /\ CanQuery
  /\ \E n \in Names :
       Answer(Availability(Cur, n), "Availability", LocalID, <<n>>)

ChangesCall ==
  /\ CanQuery
  /\ \E p \in QueryIds :
       Answer(Changes(Cur, p), "Changes", p, <<>>)

NextQuery ==
  \/ ReplaceCall \/ ReplaceWithDeleteCall \/ UpdateCall \/ Return
  \/ NeedCall \/ HaveCall \/ GlobalCall \/ GetCall \/ GetGlobalCall
  \/ AvailabilityCall \/ ChangesCall

SpecQuery == Init /\ [][NextQuery]_vars

----------------------------------------------------------------------------
(* C13: Need *)

\* the names of the global index peer p needs: those p holds nothing for,
\* and those whose global key is newer than the key p holds
NeededNames(p) ==
  { n \in DOMAIN globalKey :
      ~Holds(p, n) \/ newerThan(globalKey[n], KeyOf(p, n)) }

\* the elements of a sequence
Elems(q) == { q[i] : i \in 1..Len(q) }

\* C13: Need(p) returns exactly the descriptors of the global records of
\* those names n of the global index for which peer p holds nothing or the
\* global key of n is newer than the key p holds: one descriptor per such
\* name and no other. A peer holding nothing for a name of the global index
\* needs it, and a peer whose key equals the global key does not.
C13_NeedExact ==
  (Returned("Need") /\ call.id \in Slots) =>
    /\ \A n \in NeededNames(call.id) : globalKey[n] \in DOMAIN files
    /\ Len(result[1]) = Cardinality(NeededNames(call.id))
    /\ Elems(result[1]) =
         { fileOf(Cur, globalKey[n]) : n \in NeededNames(call.id) }
    /\ \A n \in DOMAIN globalKey :
         /\ ~Holds(call.id, n) => \E f \in Elems(result[1]) : f.Name = n
         /\ (Holds(call.id, n) /\ KeyOf(call.id, n) = globalKey[n])
              => ~\E f \in Elems(result[1]) : f.Name = n

\* a Need has returned one descriptor, for a name of which the peer holds a
\* key older than the global one, and none for a name of which it holds the
\* global key
C13_Witness ==
  /\ Returned("Need")
  /\ call.id \in Slots
  /\ Len(result[1]) = 1
  /\ \E n \in DOMAIN globalKey :
       /\ Holds(call.id, n)
       /\ newerThan(globalKey[n], KeyOf(call.id, n))
       /\ result[1][1].Name = n
  /\ \E n \in DOMAIN globalKey :
       Holds(call.id, n) /\ KeyOf(call.id, n) = globalKey[n]

----------------------------------------------------------------------------
(* C14..C16: the mutations as steps *)

Mutations == {"Update", "Replace", "ReplaceWithDelete"}

\* the step is a call of method op, returning or not
Calls(op) == call.op = "none" /\ call'.op = op

\* C14: peer-id validation. Update, Replace and ReplaceWithDelete called
\* with a peer id greater than 63 each abort fatally, and the record table,
\* the per-peer indices, the global index, the availability index and every
\* change counter are the same as before the call.
C14_PeerIdValidation ==
  [][ \A op \in Mutations :
        (Calls(op) /\ call'.id > NumSlots - 1)
          => (panicked' /\ UNCHANGED setVars) ]_vars

\* an Update with an id out of range and a file to record has aborted, on a
\* Set that holds files
C14_Witness ==
  /\ panicked
  /\ call.op = "Update"
  /\ call.id > NumSlots - 1
  /\ Len(call.fs) = 1
  /\ DOMAIN files # {}
  /\ DOMAIN globalKey # {}

\* C15: lock release on every exit path. After any public operation of the
\* Set has ended, by returning or by a fatal error raised while the lock
\* was held, the mutex is free and another thread can acquire it.
C15_LockReleased == call.op # "none" => ~locked

\* C16: change counter of Update. Every Update(p, files) call, p in 0..63,
\* increments Changes(p) by exactly one, also when files is empty or every
\* descriptor is skipped as already held, and leaves Changes(q) unchanged
\* for every q different from p; and no step decreases a change counter.
C16_UpdateCounts ==
  [][ /\ (Calls("Update") /\ call'.id \in Slots)
        => /\ changesOf(Post, call'.id) = changesOf(Cur, call'.id) + 1
           /\ \A q \in Slots \ {call'.id} :
                changesOf(Post, q) = changesOf(Cur, q)
      /\ \A q \in Slots : changesOf(Post, q) >= changesOf(Cur, q) ]_vars

----------------------------------------------------------------------------
(* C17: lamport.Clock called by concurrent callers.  args[p] is where      *)
(* caller p is and the c it calls Clock with; result is the log of the     *)
(* calls that returned, in the order in which they held clockMut.          *)

Callers == {1, 2}

\* the values of a uint64
Uints == 0..(2 ^ UintBits - 1)

InitClock ==
  /\ Fresh
  /\ args = [p \in Callers |-> [pc |-> "idle", c |-> 0]]
  /\ result = <<>>

\* the calls made so far, returned or not
ClockCalls == Len(result) + Cardinality({ p \in Callers : args[p].pc # "idle" })

ClockUnchanged ==
  UNCHANGED <<files, remoteKey, changes, globalAvailability, globalKey,
              locked, panicked, call, pullerVars>>

\* caller p calls Clock(c)
ClockCall(p) ==
  /\ args[p].pc = "idle"
  /\ ClockCalls < MaxClockCalls
  /\ \E c \in Uints : args' = [args EXCEPT ![p] = [pc |-> "call", c |-> c]]
  /\ UNCHANGED <<clockVal, clockMut, result>>
  /\ ClockUnchanged

\* clockMut.Lock()
ClockLock(p) ==
  /\ args[p].pc = "call"
  /\ clockMut = 0
  /\ clockMut' = p
  /\ args' = [args EXCEPT ![p].pc = "locked"]
  /\ UNCHANGED <<clockVal, result>>
  /\ ClockUnchanged

\* the if statement with clockMut.Unlock() and the return of either branch
ClockReturn(p) ==
  /\ args[p].pc = "locked"
  /\ clockMut = p
  /\ clockVal' = ClockNext(clockVal, args[p].c)
  /\ result' = Append(result, [c |-> args[p].c,
                               ret |-> ClockResult(clockVal, args[p].c)])
  /\ clockMut' = 0
  /\ args' = [args EXCEPT ![p].pc = "idle"]
  /\ ClockUnchanged

NextClock == \E p \in Callers : ClockCall(p) \/ ClockLock(p) \/ ClockReturn(p)

SpecClock == InitClock /\ [][NextClock]_vars

\* C17: monotonic version generator. Every call Clock(c) returns a value
\* strictly greater than c and strictly greater than every value any
\* earlier call of Clock returned, for any interleaving of the callers; two
\* calls never return the same value.
C17_ClockMonotonic ==
  \A i \in 1..Len(result) :
    /\ result[i].ret > result[i].c
    /\ \A j \in 1..(i - 1) : result[i].ret > result[j].ret

----------------------------------------------------------------------------
(* C18: the indices and the record table *)

\* the query that has just returned read an index that has an entry for the
\* name it returned, or should have returned, a descriptor of
ReadsEntry ==
  \/ Returned("Get") /\ call.id \in Slots /\ Holds(call.id, args[1])
  \/ Returned("GetGlobal") /\ args[1] \in DOMAIN globalKey

\* C18: index entries always resolve. After any sequence of public
\* mutations, every key of every per-peer index entry and every key of the
\* global index has a record in the record table; so Get and GetGlobal
\* return a descriptor of the name asked for when the index has an entry
\* for it, and Have, Global and Need return no zero-valued descriptor.
C18_EntriesResolve ==
  ~panicked =>
    /\ \A i \in DOMAIN remoteKey : \A n \in DOMAIN remoteKey[i] :
         KeyOf(i, n) \in DOMAIN files
    /\ \A n \in DOMAIN globalKey : globalKey[n] \in DOMAIN files
    /\ ReadsEntry => (result[1] # ZeroFile /\ result[1].Name = args[1])
    /\ (call.op \in {"Have", "Global", "Need"})
         => \A f \in Elems(result[1]) : f # ZeroFile /\ f.Name \in Names

\* a Get has returned the descriptor of a name the peer holds, from a
\* record it shares with another peer, while it holds the other name under
\* a key of its own
C18_Witness ==
  /\ Returned("Get")
  /\ call.id \in Slots
  /\ DOMAIN remoteMap(Cur, call.id) = Names
  /\ result[1].Name = args[1]
  /\ files[KeyOf(call.id, args[1])].Usage = 2
  /\ \E q \in Slots \ {call.id} :
       /\ Holds(q, args[1])
       /\ KeyOf(q, args[1]) = KeyOf(call.id, args[1])
       /\ \E n \in Names : Holds(q, n) /\ KeyOf(q, n) # KeyOf(call.id, n)

----------------------------------------------------------------------------
(* The puller.  w is the puller with the Set of its model: the record of   *)
(* set (the Set), openFiles, requestSlots, oustandingPerNode and requests. *)
(* A bqBlock is its file, whether len(copy) > 0, whether block.Size > 0,   *)
(* and last; an openFile is err # nil, outstanding, done and availability. *)

\* the connected nodes cm.Names() may yield, and cm.Get(node)
Nodes == {"n1"}

NodeId(node) == 1

\* the zero value of openFile
ZeroOpenFile ==
  [err |-> FALSE, outstanding |-> 0, done |-> FALSE, availability |-> {}]

\* the loop of leastBusyNode over names; selected is "" until a node is
\* taken, and then low is its usage (low starts above every usage)
RECURSIVE leastBusyLoop(_, _, _, _, _)
leastBusyLoop(m, availability, names, low, selected) ==
  IF names = <<>> THEN selected
  ELSE LET node == Head(names)
           usage == Lookup(m, node, 0)
       IN  IF NodeId(node) # LocalID /\ NodeId(node) \in availability
              /\ (IF selected = "" THEN TRUE ELSE usage < low)
           THEN leastBusyLoop(m, availability, Tail(names), usage, node)
           ELSE leastBusyLoop(m, availability, Tail(names), low, selected)

\* leastBusyNode: the node selected, "" when none is available, and the
\* activity map after m[selected]++
leastBusyNode(m, availability, names) ==
  LET selected == leastBusyLoop(m, availability, names, 0, "")
  IN  [node |-> selected, m |-> Store(m, selected, Lookup(m, selected, 0) + 1)]

\* p.requestSlots <- true
slotBack(w) == [w EXCEPT !.requestSlots = @ + 1]

\* p.openFiles[name] = of
storeOpen(w, name, of) == [w EXCEPT !.openFiles = Store(@, name, of)]

\* p.model.fs.Update(cid.LocalID, []scanner.File{f})
fsUpdate(w, f) == [w EXCEPT !.set = Update(@, LocalID, <<f>>)]

\* lines 207-309 of handleBlock: the file is open and has not failed; of
\* has its availability and done set
handleOpen(w, b, of, io, names) ==
  LET name == b.file.Name
  IN  IF b.copy
      THEN \* blocks to copy from the existing file
           IF ~(io.open /\ io.copy)
           THEN slotBack(storeOpen(w, name, [of EXCEPT !.err = TRUE]))
           ELSE \* exfd.Close() and out of the switch: the function ends
                w
      ELSE IF b.size
      THEN \* a block to get from the network
           LET l == leastBusyNode(w.oustandingPerNode, of.availability, names)
               w1 == [w EXCEPT !.oustandingPerNode = l.m]
           IN  IF l.node = ""
               THEN slotBack(w1)
               ELSE [storeOpen(w1, name, [of EXCEPT !.outstanding = @ + 1])
                       EXCEPT !.requests =
                         Append(@, [node |-> l.node, file |-> b.file,
                                    pc |-> "start"])]
      ELSE \* default: nothing to fetch or copy
           LET w1 == fsUpdate(w, b.file)
           IN  IF w1.set.panic THEN w1 ELSE slotBack(w1)

\* puller.handleBlock; io tells which of os.Create, os.Open and the copying
\* succeed, names is cm.Names()
handleBlock(w, b, io, names) ==
  LET name == b.file.Name
      ok == name \in DOMAIN w.openFiles
      of == Lookup(w.openFiles, name, ZeroOpenFile)
  IN  IF ~ok /\ ~io.create
      THEN slotBack(storeOpen(w, name, [of EXCEPT !.err = TRUE]))
      ELSE IF of.err
      THEN \* we have already failed this file
           slotBack(IF b.last
                    THEN [w EXCEPT !.openFiles = Delete(@, name)]
                    ELSE w)
      ELSE handleOpen(w, b,
                      [of EXCEPT !.availability = Availability(w.set, name).ret,
                                 !.done = b.last],
                      io, names)

\* lines 146-155: the file is complete
closeFile(w, res) ==
  fsUpdate([w EXCEPT !.openFiles = Delete(@, res.file.Name)], res.file)

\* puller.handleRequestResult; written tells whether WriteAt succeeds
handleRequestResult(w, res, written) ==
  LET name == res.file.Name
  IN  IF name \notin DOMAIN w.openFiles THEN w
      ELSE IF w.openFiles[name].err THEN w
      ELSE LET of == [w.openFiles[name] EXCEPT !.err = ~written,
                                               !.outstanding = @ - 1]
               w1 == IF of.done /\ of.outstanding = 0
                     THEN closeFile(w, res)
                     ELSE w
           IN  IF w1.set.panic THEN w1 ELSE storeOpen(w1, name, of)

\* the case res := <-p.requestResults of run
receiveResult(w, res, written) ==
  handleRequestResult(
    [w EXCEPT !.oustandingPerNode = Store(@, res.node, Lookup(@, res.node, 0) - 1)],
    res, written)

\* queueNeededBlocks: the files put into the block queue
queueNeededBlocks(st, order) == Elems(Need(st, LocalID, order).ret)

----------------------------------------------------------------------------
(* The puller as a state machine: the run loop, the filler goroutine and   *)
(* the request goroutines.  The block queue, the connections and the file  *)
(* system are the environment: what they yield is drawn from small sets.   *)

\* the Set the puller starts with: the local repository holds b, node n1
\* (peer 1) has announced a and a newer b
PullerSet ==
  Replace(Replace(NewSet, LocalID, <<File("b", 0, 0, <<Block1>>)>>),
          1, <<File("a", 1, 0, <<Block1>>), File("b", 1, 0, <<Block1>>)>>)

\* the puller and its Set as one value
CurPuller ==
  [set |-> Cur, openFiles |-> openFiles, requestSlots |-> requestSlots,
   oustandingPerNode |-> oustandingPerNode, requests |-> requests]

BecomePuller(w) ==
  /\ files' = w.set.files
  /\ remoteKey' = w.set.remoteKey
  /\ changes' = w.set.changes
  /\ globalAvailability' = w.set.globalAvailability
  /\ globalKey' = w.set.globalKey
  /\ locked' = w.set.locked
  /\ clockVal' = w.set.clockVal
  /\ panicked' = w.set.panic
  /\ openFiles' = w.openFiles
  /\ requestSlots' = w.requestSlots
  /\ oustandingPerNode' = w.oustandingPerNode
  /\ requests' = w.requests
  /\ UNCHANGED <<call, args, result, clockMut>>

\* newPuller: the slots are put into requestSlots and run is started
InitPuller ==
  /\ files = PullerSet.files
  /\ remoteKey = PullerSet.remoteKey
  /\ changes = PullerSet.changes
  /\ globalAvailability = PullerSet.globalAvailability
  /\ globalKey = PullerSet.globalKey
  /\ locked = FALSE
  /\ clockVal = 0
  /\ panicked = FALSE
  /\ call = NoCall
  /\ args = <<>>
  /\ result = <<>>
  /\ clockMut = 0
  /\ openFiles = EmptyMap
  /\ requestSlots = NSlots
  /\ oustandingPerNode = EmptyMap
  /\ queued = {}
  /\ filler = FillerAt("slot")
  /\ requests = <<>>
  /\ handled = 0

\* the shapes of the blocks of file f the block queue may yield
BlocksOf(f) ==
  { [file |-> f, copy |-> c, size |-> z, last |-> l] :
      c \in BOOLEAN, z \in BOOLEAN, l \in BOOLEAN }

\* what the file system does
IOs == [create : BOOLEAN, open : BOOLEAN, copy : BOOLEAN]

\* the filler: <-p.requestSlots
FillerSlot ==
  /\ ~panicked
  /\ filler.pc = "slot"
  /\ requestSlots > 0
  /\ requestSlots' = requestSlots - 1
  /\ filler' = FillerAt("get")
  /\ UNCHANGED <<setVars, locked, clockVal, panicked, call, args, result,
                 clockMut, openFiles, oustandingPerNode, queued, requests,
                 handled>>

\* the filler: b := p.bq.get(), a block of a file that was queued; the
\* file's last block takes the file out of the queue
FillerGet ==
  /\ ~panicked
  /\ filler.pc = "get"
  /\ handled < MaxBlocks
  /\ \E f \in queued : \E b \in BlocksOf(f) :
       /\ filler' = [pc |-> "hand", b |-> b]
       /\ queued' = IF b.last THEN queued \ {f} ELSE queued
  /\ handled' = handled + 1
  /\ UNCHANGED <<setVars, locked, clockVal, panicked, call, args, result,
                 clockMut, openFiles, requestSlots, oustandingPerNode,
                 requests>>

\* run: case b := <-p.blocks, with the filler's p.blocks <- b
HandleBlock ==
  /\ ~panicked
  /\ filler.pc = "hand"
  /\ \E io \in IOs : \E names \in Orders(Nodes) \cup {<<>>} :
       BecomePuller(handleBlock(CurPuller, filler.b, io, names))
  /\ filler' = FillerAt("slot")
  /\ UNCHANGED <<queued, handled>>

\* the sequence q without its element i
Without(q, i) == [j \in 1..(Len(q) - 1) |-> IF j < i THEN q[j] ELSE q[j + 1]]

\* request goroutine i: the node has a connection; c.Request is made
RequestStart(i) ==
  /\ ~panicked
  /\ requests[i].pc = "start"
  /\ requests' = [requests EXCEPT ![i].pc = "send"]
  /\ UNCHANGED <<setVars, locked, clockVal, panicked, call, args, result,
                 clockMut, openFiles, requestSlots, oustandingPerNode, queued,
                 filler, handled>>

\* request goroutine i: the node has no connection any more
RequestNoConn(i) ==
  /\ ~panicked
  /\ requests[i].pc = "start"
  /\ panicked' = TRUE
  /\ UNCHANGED <<setVars, locked, clockVal, call, args, result, clockMut,
                 pullerVars>>

\* run: case res := <-p.requestResults, with goroutine i's send
ReceiveResult(i) ==
  /\ ~panicked
  /\ requests[i].pc = "send"
  /\ \E written \in BOOLEAN :
       BecomePuller([receiveResult(CurPuller, requests[i], written)
                       EXCEPT !.requests[i].pc = "slot"])
  /\ UNCHANGED <<queued, filler, handled>>

\* request goroutine i: p.requestSlots <- true, and the goroutine ends
RequestSlot(i) ==
  /\ ~panicked
  /\ requests[i].pc = "slot"
  /\ requestSlots < NSlots
  /\ requestSlots' = requestSlots + 1
  /\ requests' = Without(requests, i)
  /\ UNCHANGED <<setVars, locked, clockVal, panicked, call, args, result,
                 clockMut, openFiles, oustandingPerNode, queued, filler,
                 handled>>

\* run: case <-needTicker
NeedTick ==
  /\ ~panicked
  /\ IF DOMAIN openFiles # {}
     THEN UNCHANGED queued
     ELSE \E order \in Orders(DOMAIN globalKey) :
            queued' = queued \cup queueNeededBlocks(Cur, order)
  /\ UNCHANGED <<setVars, locked, clockVal, panicked, call, args, result,
                 clockMut, openFiles, requestSlots, oustandingPerNode, filler,
                 requests, handled>>

NextPuller ==
  \/ FillerSlot
  \/ FillerGet
  \/ HandleBlock
  \/ NeedTick
  \/ \E i \in 1..Len(requests) : RequestStart(i)
  \/ \E i \in 1..Len(requests) : RequestNoConn(i)
  \/ \E i \in 1..Len(requests) : ReceiveResult(i)
  \/ \E i \in 1..Len(requests) : RequestSlot(i)

SpecPuller == InitPuller /\ [][NextPuller]_vars

----------------------------------------------------------------------------
(* C19, C20: the puller *)

\* the slots taken out of requestSlots that somebody is still to put back:
\* the one the filler took for the block it is getting or handing over, and
\* one for every request goroutine
SlotsInUse == (IF filler.pc = "slot" THEN 0 ELSE 1) + Len(requests)

\* C19: request-slot conservation. Every path through handleBlock puts
\* exactly one slot back into requestSlots, directly or through the request
\* goroutine it starts; so after any sequence of handled blocks the free
\* slots plus the slots in use by the filler and the requests in flight are
\* the configured slot count.
C19_SlotConservation ==
  ~panicked => requestSlots + SlotsInUse = NSlots

\* the step is the run loop handling the result of request goroutine i
Receives(i) ==
  /\ i \in 1..Len(requests)
  /\ Len(requests') = Len(requests)
  /\ requests[i].pc = "send"
  /\ requests'[i].pc = "slot"

\* the result handled is that of the last outstanding request of a file
\* that has not failed and whose requests have all been sent
LastResult(i) ==
  LET name == requests[i].file.Name
  IN  /\ name \in DOMAIN openFiles
      /\ ~openFiles[name].err
      /\ openFiles[name].done
      /\ openFiles[name].outstanding = 1

\* C20: open-file completion. When handleRequestResult processes the
\* result of the last outstanding request of a file whose requests have all
\* been sent, the file's entry is absent from openFiles when the handler
\* returns.
C20_OpenFileCompletion ==
  [][ \A i \in 1..NSlots :
        (Receives(i) /\ LastResult(i) /\ ~panicked')
          => requests[i].file.Name \notin DOMAIN openFiles' ]_vars

----------------------------------------------------------------------------
(* C21: the local view under Update and ReplaceWithDelete *)

\* the names LocalID held before the step that the list of the call leaves
\* out
LeftOut == DOMAIN remoteMap(Cur, LocalID) \ NamesOf(call'.fs)

\* C21: local names never disappear under ReplaceWithDelete. Every
\* Update(LocalID, fs) and ReplaceWithDelete(LocalID, fs) call leaves every
\* name of LocalID's index in the index; and a name the list of a
\* ReplaceWithDelete that returns leaves out stays bound either to the key
\* it had (the list encodes the view: no change) or to the key of a
\* tombstone of the descriptor held for it.
C21_LocalNamesStay ==
  [][ /\ ( (Calls("Update") \/ Calls("ReplaceWithDelete"))
           /\ call'.id = LocalID )
        => DOMAIN remoteMap(Cur, LocalID) \subseteq DOMAIN remoteMap(Post, LocalID)
      /\ ( Returns("ReplaceWithDelete") /\ call'.id = LocalID )
        => \A n \in LeftOut :
             /\ n \in DOMAIN remoteMap(Post, LocalID)
             /\ \/ remoteMap(Post, LocalID)[n] = remoteMap(Cur, LocalID)[n]
                \/ \E v \in Uints :
                     remoteMap(Post, LocalID)[n] =
                       keyFor(tombstone(Get(Cur, LocalID, n), v)) ]_vars

\* a ReplaceWithDelete(LocalID, fs) has returned for the second time or
\* later, LocalID holds both names, and one of them is not in fs and is held
\* as a deleted file
C21_Witness ==
  /\ Returned("ReplaceWithDelete")
  /\ call.id = LocalID
  /\ changesOf(Cur, LocalID) >= 2
  /\ DOMAIN remoteMap(Cur, LocalID) = Names
  /\ \E n \in Names \ NamesOf(call.fs) : IsDeleted(Get(Cur, LocalID, n))

====
